---- MODULE Spec2Model ----
(***************************************************************************)
(* A model of src/main.py: the OAuth2 verification / redirection bot.      *)
(*                                                                         *)
(* State: the three module-level tables (user_access_tokens,               *)
(* pending_verifications, oauth2_adds_log), the dict objects they are      *)
(* bound to, how each JSON file stands to its table, the in-flight         *)
(* /callback handlers, the in-flight !add command and the last line        *)
(* written to the process log.                                             *)
(* Every await of the source is a suspension point: a handler is one       *)
(* action per stretch of code between two awaits that matter to the        *)
(* tables.                                                                 *)
(***************************************************************************)
EXTENDS Integers, Sequences, FiniteSets, TLC

VARIABLES ref, heap, disk, wbudget, cb, rd, bt, last

vars == <<ref, heap, disk, wbudget, cb, rd, bt, last>>

(***************************************************************************)
(* Bounds of the model.                                                    *)
(***************************************************************************)
\* most entries one user's redirection list may hold
MaxLog == 2
\* most entries a user's list may hold when a batch over the user starts
MaxBatchLog == 1
\* most file writes that may fail in a run that is given write faults
\* (wbudget); the runs of Spec and SpecRedirect are given none
MaxWriteFail == 1

(***************************************************************************)
(* Program constants and the small sets inputs are drawn from.             *)
(***************************************************************************)
TARGET_SERVER_ID == 9

Users == {1, 2}
OriginGuilds == {7, 8}
\* who starts a verification where: user 1 in either guild, user 2 in one
Initiations == {<<1, 7>>, <<1, 8>>, <<2, 7>>}
Tables == {"tokens", "pending", "log"}
CbIds == {"c1", "c2"}

\* access tokens the provider can issue, and the user each belongs to
Tokens == {"ta", "tb", "tc"}
Owner(t) == IF t = "tc" THEN 2 ELSE 1

(***************************************************************************)
(* Strings are sequences of one-character strings.                         *)
(***************************************************************************)
DigitChars == <<"0", "1", "2", "3", "4", "5", "6", "7", "8", "9">>

IsDigit(ch) == \E i \in 1..10 : DigitChars[i] = ch

DigitVal(ch) == (CHOOSE i \in 1..10 : DigitChars[i] = ch) - 1

\* str(n) of a non-negative int
RECURSIVE IntToStr(_)
IntToStr(n) ==
    IF n < 10 THEN <<DigitChars[n + 1]>>
    ELSE IntToStr(n \div 10) \o <<DigitChars[(n % 10) + 1]>>

RECURSIVE DigitsVal(_)
DigitsVal(s) ==
    IF s = <<>> THEN 0
    ELSE 10 * DigitsVal(SubSeq(s, 1, Len(s) - 1)) + DigitVal(s[Len(s)])

\* int(s): a value, or ValueError, over the alphabet digits, ":" and "x"
IntOk(s) == s # <<>> /\ \A i \in 1..Len(s) : IsDigit(s[i])
IntVal(s) == DigitsVal(s)

\* s.split(':')
RECURSIVE Split(_)
Split(s) ==
    IF \A i \in 1..Len(s) : s[i] # ":" THEN <<s>>
    ELSE LET p == CHOOSE i \in 1..Len(s) :
                      s[i] = ":" /\ \A j \in 1..(i - 1) : s[j] # ":"
         IN  <<SubSeq(s, 1, p - 1)>> \o Split(SubSeq(s, p + 1, Len(s)))

(***************************************************************************)
(* Python values held in a dict, tagged with their type: an access token   *)
(* (str), a guild id (int) or a list of redirection entries.               *)
(***************************************************************************)
TokV(t) == [kind |-> "str", tok |-> t, gid |-> 0, list |-> <<>>]
GidV(g) == [kind |-> "int", tok |-> "", gid |-> g, list |-> <<>>]
ListV(l) == [kind |-> "list", tok |-> "", gid |-> 0, list |-> l]
NoVal == [kind |-> "none", tok |-> "", gid |-> 0, list |-> <<>>]

EmptyDict == [k \in {} |-> NoVal]
Has(d, k) == k \in DOMAIN d
Get(d, k) == IF Has(d, k) THEN d[k] ELSE NoVal
Put(d, k, v) == [x \in (DOMAIN d) \cup {k} |-> IF x = k THEN v ELSE d[x]]
Del(d, k) == [x \in (DOMAIN d) \ {k} |-> d[x]]

\* str(member.id): the key of a user in every table
Key(u) == IntToStr(u)

(***************************************************************************)
(* The tables.  load_json_file(filename, default={}) returns its default   *)
(* argument when the file is missing or cannot be parsed, and that         *)
(* default is one dict object created once, at the def: every table loaded *)
(* that way is bound to the same object.                                   *)
(***************************************************************************)
Objects == Tables \cup {"default"}

\* A file is recorded by how it stands to the table it persists: it holds the
\* table's content ("current"), parses but holds other content ("stale"), or
\* is missing or does not parse ("unreadable": load_json_file tells the two
\* apart only in a print).  At load a file is one of the two below.
FileStates == {"current", "unreadable"}

\* the object load_json_file returns for a table
load_json_file(file, t) == IF file = "unreadable" THEN "default" ELSE t

Table(t) == heap[ref[t]]
user_access_tokens == Table("tokens")
pending_verifications == Table("pending")
oauth2_adds_log == Table("log")

\* heap after table[k] = v and after del table[k]
SetItem(h, t, k, v) == [h EXCEPT ![ref[t]] = Put(h[ref[t]], k, v)]
DelItem(h, t, k) == [h EXCEPT ![ref[t]] = Del(h[ref[t]], k)]

\* the files after memory went from h0 to h1 with nothing written
Touch(d, h0, h1) ==
    [t \in Tables |-> IF d[t] = "current" /\ h0[ref[t]] # h1[ref[t]]
                      THEN "stale" ELSE d[t]]

\* save_json_file: the outcome of one write
SaveOutcomes == {"ok", "open_fails", "dump_fails"}

\* the files after save_json_file(file of t, table t) with outcome o; every
\* exception is caught and printed: open(..., 'w') failing leaves the file
\* as it was, json.dump failing leaves it cut short
save_json_file(d, t, o) ==
    CASE o = "ok" -> [d EXCEPT ![t] = "current"]
      [] o = "open_fails" -> d
      [] OTHER -> [d EXCEPT ![t] = "unreadable"]

Failures(o) == IF o = "ok" THEN 0 ELSE 1

(***************************************************************************)
(* What the process last did that the outside can see: the handler (c) and *)
(* the line it printed (op), the user, guild and token the line is about,  *)
(* the answer of the provider or guild the step consumed (r), the response *)
(* sent to the browser (out), what complete_verification or                *)
(* add_user_to_guild_via_oauth2 returned (ret), the authorization URL an   *)
(* initiation handed to the user (url), the pieces of the token t that the *)
(* step printed or sent to the chat (shown) and the guild of the pending   *)
(* record the step deleted (gone).                                         *)
(***************************************************************************)
Ev(op, c, u, r) ==
    [op |-> op, c |-> c, u |-> u, g |-> 0, t |-> "", r |-> r,
     out |-> "", ret |-> "", url |-> <<>>, shown |-> {}, gone |-> 0]

\* the characters of a token; the code does not constrain the length of
\* what the provider issues: one of 30 characters, a longer and a shorter one
TokenText(t) ==
    CASE t = "ta" -> [i \in 1..30 |-> "a"]
      [] t = "tb" -> [i \in 1..45 |-> "b"]
      [] t = "tc" -> [i \in 1..8 |-> "c"]
      [] OTHER -> <<>>

\* s[:n]
Slice(s, n) == SubSeq(s, 1, IF n < Len(s) THEN n ELSE Len(s))

\* the step prints or sends v[:n] for every n of ns, v a str
Shows(e, v, ns) ==
    IF v.kind = "str"
    THEN [e EXCEPT !.t = v.tok,
                   !.shown = {Slice(TokenText(v.tok), n) : n \in ns}]
    ELSE e

Plain(e) == [e EXCEPT !.out = "200 text/plain"]
Page(e, ret) == [e EXCEPT !.out = "200 text/html", !.ret = ret]
Crash(e) == [e EXCEPT !.out = "500"]

(***************************************************************************)
(* Handlers in flight.  A /callback handler: its position, the state       *)
(* parameter of the request, the access token, the user id and the guild   *)
(* id parsed from the state (suid, sgid), the current user_id and the      *)
(* value read from                                                         *)
(* pending_verifications.  Two fields only observe: 'bad' names the first  *)
(* step at which the provider or the guild failed a callback that went on, *)
(* 'solo' holds while no other handler has run since the callback began.   *)
(***************************************************************************)
PyNone == 0 - 1

IdleCb ==
    [pc |-> "idle", state |-> <<>>, tok |-> "", suid |-> PyNone,
     sgid |-> PyNone, uid |-> PyNone, gv |-> NoVal, bad |-> "",
     solo |-> FALSE]

\* the !add command: its position, the member, the token value read
IdleRd == [pc |-> "idle", u |-> 0, tokv |-> NoVal]

\* the !addall command: its position, verified_members, the index of the
\* loop, the three counters and the token value read for the entry at hand.
\* Five fields only observe: 'unusable' counts the entries whose token was
\* None or empty when the loop came to them, 'hurt' holds once a call of the
\* batch has returned False, 'slept' counts the pacing sleeps of line 534
\* the loop has been through, 'appended' counts the entries the batch's calls
\* added to oauth2_adds_log and 'barren' the calls that added none.
IdleBt ==
    [pc |-> "idle", members |-> <<>>, i |-> 0, success_count |-> 0,
     fail_count |-> 0, no_token_count |-> 0, tokv |-> NoVal,
     unusable |-> 0, hurt |-> FALSE, slept |-> 0, appended |-> 0,
     barren |-> 0]

\* another handler ran: the callbacks in flight other than c are not alone
Interleave(f, c) ==
    [x \in CbIds |-> IF x # c /\ f[x].pc # "idle"
                     THEN [f[x] EXCEPT !.solo = FALSE] ELSE f[x]]

SetCb(c, rec) == cb' = [Interleave(cb, c) EXCEPT ![c] = rec]

(***************************************************************************)
(* Start of the process: the three load_json_file calls.                   *)
(***************************************************************************)
Init ==
    /\ disk \in [Tables -> FileStates]
    /\ ref = [t \in Tables |-> load_json_file(disk[t], t)]
    /\ heap = [o \in Objects |-> EmptyDict]
    /\ wbudget = 0
    /\ cb = [c \in CbIds |-> IdleCb]
    /\ rd = IdleRd
    /\ bt = IdleBt
    /\ last = Ev("start", "", 0, "")

(***************************************************************************)
(* Authorization initiation: the Start Verification button and !verify.    *)
(***************************************************************************)
\* pending_verifications[str(member.id)] = guild.id
StorePendingIfNew(h, u, g) ==
    IF Has(h[ref["pending"]], Key(u)) THEN h
    ELSE SetItem(h, "pending", Key(u), GidV(g))

StorePending(h, u, g) == SetItem(h, "pending", Key(u), GidV(g))

\* lines 294 and 411: state_data = f"{member.id}:{guild.id}"
state_data_guild_first(u, g) == IntToStr(g) \o <<":">> \o IntToStr(u)

state_data(u, g) == IntToStr(u) \o <<":">> \o IntToStr(g)

\* lines 295 and 412: the URL is the authorize endpoint with client_id,
\* redirect_uri, response_type and scope, all fixed at import, and last the
\* state parameter
AuthorizeUpToState ==
    "https://discord.com/api/oauth2/authorize?client_id=&redirect_uri=&response_type=code&scope=identify+guilds.join&state="

oauth_url(u, g) == <<AuthorizeUpToState>> \o state_data(u, g)

\* request.query.get('state') of the request the provider sends the browser
\* to: the state parameter of the URL, handed back as it was
StateParam(url) == Tail(url)

\* lines 294-301 and 411-417
InitiateWrite(u, g, op) ==
    \E o \in SaveOutcomes :
        /\ Failures(o) <= wbudget
        /\ heap' = StorePending(heap, u, g)
        /\ disk' = save_json_file(Touch(disk, heap, heap'), "pending", o)
        /\ wbudget' = wbudget - Failures(o)
        /\ cb' = Interleave(cb, "")
        /\ last' = [Ev(op, "", u, IF Has(pending_verifications, Key(u))
                                  THEN "replaced" ELSE "new")
                    EXCEPT !.g = g, !.url = oauth_url(u, g)]
        /\ UNCHANGED <<ref, rd, bt>>

InitiateRefused(op) ==
    /\ cb' = Interleave(cb, "")
    /\ last' = Ev(op, "", 0, "")
    /\ UNCHANGED <<ref, heap, disk, wbudget, rd, bt>>

\* lines 270-291: the member is verified already, the unverified role is
\* not configured, or it cannot be assigned
ButtonRefuses(verified, roleExists, hasUnverified, addRaises) ==
    verified \/ ~roleExists \/ (~hasUnverified /\ addRaises)

\* StartVerifyButton.start_verify
start_verify(inits) ==
    \/ /\ \E v, r, h, a \in BOOLEAN : ButtonRefuses(v, r, h, a)
       /\ InitiateRefused("button_refused")
    \/ /\ \E v, r, h, a \in BOOLEAN : ~ButtonRefuses(v, r, h, a)
       /\ \E i \in inits :
            InitiateWrite(i[1], i[2], "button_stored_pending")

\* verify_command: refused for a member who is verified already
verify_command(inits) ==
    \/ InitiateRefused("command_refused")
    \/ \E i \in inits :
         InitiateWrite(i[1], i[2], "command_stored_pending")

(***************************************************************************)
(* The provider: token exchange and identity lookup.                       *)
(***************************************************************************)
\* what the token endpoint may answer: a transport exception, or a status
\* and a JSON body with or without an access_token ("" is a body without)
ExchangeResponses(toks) ==
    {[exc |-> TRUE, status |-> 0, tok |-> ""]}
    \cup {[exc |-> FALSE, status |-> s, tok |-> t] :
             s \in {200, 400}, t \in toks \cup {""}}

NoTokenData == [none |-> TRUE, tok |-> ""]

\* exchange_code_for_token: the parsed body on 200, None otherwise
exchange_code_for_token_any_status(resp) ==
    IF resp.exc THEN NoTokenData ELSE [none |-> FALSE, tok |-> resp.tok]

exchange_code_for_token(resp) ==
    IF resp.exc THEN NoTokenData
    ELSE IF resp.status = 200 THEN [none |-> FALSE, tok |-> resp.tok]
    ELSE NoTokenData

\* handle_callback: not token_data or 'access_token' not in token_data
TokenMissing(td) == td.none \/ td.tok = ""

\* what /users/@me may answer for a token: an exception, or a status and a
\* body that is empty, lacks 'id', or carries the id of the token's owner
IdentityResponses(t) ==
    {[exc |-> TRUE, status |-> 0, body |-> "empty", id |-> <<>>]}
    \cup {[exc |-> FALSE, status |-> s, body |-> b,
           id |-> IF b = "id" THEN IntToStr(Owner(t)) ELSE <<>>] :
             s \in {200, 401}, b \in {"id", "noid", "empty"}}

NoUserInfo == [none |-> TRUE, body |-> "empty", id |-> <<>>]

\* get_user_info: the parsed body on 200, None otherwise
get_user_info_any_status(resp) ==
    IF resp.exc THEN NoUserInfo
    ELSE [none |-> FALSE, body |-> resp.body, id |-> resp.id]

get_user_info(resp) ==
    IF resp.exc THEN NoUserInfo
    ELSE IF resp.status = 200
         THEN [none |-> FALSE, body |-> resp.body, id |-> resp.id]
    ELSE NoUserInfo

\* not user_info: None or an empty dict
Falsy(ui) == ui.none \/ ui.body = "empty"

\* the failures as the provider sees them, whatever the handler makes of them
ExchangeFails(resp) == resp.exc \/ resp.status # 200 \/ resp.tok = ""
IdentityFails(resp) == resp.exc \/ resp.status # 200 \/ resp.body = "empty"

\* what an answer was, for the record of the step that consumed it
ExchangeKind(resp) ==
    IF resp.exc THEN "exception"
    ELSE IF resp.status # 200 THEN "status"
    ELSE IF resp.tok = "" THEN "no_token" ELSE "ok"

IdentityKind(resp) ==
    IF resp.exc THEN "exception"
    ELSE IF resp.status # 200 THEN "status"
    ELSE IF resp.body = "id" THEN "ok" ELSE resp.body

(***************************************************************************)
(* handle_callback and complete_verification.                              *)
(***************************************************************************)
\* the state parameters a request may carry: none, well formed, and the
\* malformed ones (no delimiter, two delimiters, a non-numeric field, id 0)
StateInputs ==
    { <<>>,
      <<"1", ":", "7">>, <<"2", ":", "8">>,
      <<"1">>, <<"1", ":", "7", ":", "7">>,
      <<"x", ":", "7">>, <<"1", ":", "x">>, <<"0", ":", "7">> }

Contains(s, ch) == \E i \in 1..Len(s) : s[i] = ch

\* handle_callback's parse of state, lines 856-866: user_id and guild_id,
\* None where the parse did not get to assign
parse_state(s) ==
    IF s = <<>> \/ ~Contains(s, ":")
    THEN [user_id |-> PyNone, guild_id |-> PyNone]
    ELSE LET parts == Split(s) IN
         IF Len(parts) # 2 \/ ~IntOk(parts[1])
         THEN [user_id |-> PyNone, guild_id |-> PyNone]
         ELSE IF ~IntOk(parts[2])
         THEN [user_id |-> IntVal(parts[1]), guild_id |-> PyNone]
         ELSE [user_id |-> IntVal(parts[1]), guild_id |-> IntVal(parts[2])]

\* not user_id
NoUserId(n) == n = PyNone \/ n = 0

\* the handler answers the browser (or raises) and is gone
Finish(c, e) ==
    /\ SetCb(c, IdleCb)
    /\ last' = e
    /\ UNCHANGED <<ref, heap, disk, wbudget, rd, bt>>

\* the handler awaits
Suspend(c, rec, e) ==
    /\ SetCb(c, rec)
    /\ last' = e
    /\ UNCHANGED <<ref, heap, disk, wbudget, rd, bt>>

\* request.query.get('code'): the parameter is absent (None), empty, or holds
\* a code
CodeInputs ==
    {[none |-> TRUE, text |-> ""], [none |-> FALSE, text |-> ""],
     [none |-> FALSE, text |-> "code"]}

CodeKind(code) ==
    IF code.none THEN "code_absent"
    ELSE IF code.text = "" THEN "code_empty" ELSE "code_given"

\* not code, line 840
NoCodeOnlyAbsent(code) == code.none

NoCode(code) == code.none \/ code.text = ""

\* a request without a code: lines 834-842
CallbackNoCode(c) ==
    /\ cb[c].pc = "idle"
    /\ \E code \in CodeInputs :
         /\ NoCode(code)
         /\ Finish(c, Plain(Ev("no_code", c, 0, CodeKind(code))))

\* a request with a code: lines 834-846, up to the await of the exchange
CallbackReceived(c, states) ==
    /\ cb[c].pc = "idle"
    /\ \E s \in states, code \in CodeInputs :
         /\ ~NoCode(code)
         /\ Suspend(c, [IdleCb EXCEPT !.pc = "exchange", !.state = s,
                                      !.solo = TRUE],
                    Ev("exchanging", c, 0, CodeKind(code)))

\* the token endpoint answered: lines 846-879 up to the next await
CallbackExchanged(c, toks) ==
    /\ cb[c].pc = "exchange"
    /\ \E resp \in ExchangeResponses(toks) :
         LET td == exchange_code_for_token(resp)
             bad == IF ExchangeFails(resp) THEN "exchange" ELSE ""
             st == parse_state(cb[c].state)
             r == ExchangeKind(resp)
         IN  IF TokenMissing(td)
             THEN Finish(c, Plain(Ev("token_exchange_failed", c, 0, r)))
             ELSE IF NoUserId(st.user_id)
             THEN Suspend(c, [cb[c] EXCEPT !.pc = "fallback", !.tok = td.tok,
                                           !.state = <<>>,
                                           !.suid = st.user_id,
                                           !.sgid = st.guild_id, !.bad = bad],
                          Shows(Ev("getting_user_info", c, 0, ""),
                                TokV(td.tok), {20, 30}))
             ELSE Suspend(c, [cb[c] EXCEPT !.pc = "identity", !.tok = td.tok,
                                           !.state = <<>>,
                                           !.suid = st.user_id,
                                           !.sgid = st.guild_id,
                                           !.uid = st.user_id, !.bad = bad],
                          Shows(Ev("completing", c, 0, ""),
                                TokV(td.tok), {20, 30}))

\* the fallback lookup answered: lines 871-881 up to the next await
CallbackFallback(c) ==
    /\ cb[c].pc = "fallback"
    /\ \E resp \in IdentityResponses(cb[c].tok) :
         LET ui == get_user_info(resp)
             bad == IF cb[c].bad = "" /\ IdentityFails(resp)
                    THEN "identity" ELSE cb[c].bad
             r == IdentityKind(resp)
         IN  IF Falsy(ui)
             THEN Finish(c, Page(Ev("no_user_id", c, 0, r), ""))
             ELSE IF ui.body = "noid"
             THEN \* int(None)
                  Finish(c, Crash(Ev("TypeError", c, 0, r)))
             ELSE IF NoUserId(IntVal(ui.id))
             THEN Finish(c, Page(Ev("no_user_id", c, 0, r), ""))
             ELSE Suspend(c, [cb[c] EXCEPT !.pc = "identity",
                                           !.uid = IntVal(ui.id), !.bad = bad],
                          Ev("completing", c, 0, ""))

\* complete_verification, lines 347-354: the id of the token's user replaces
\* the user_id passed in when they differ
authoritative_id_from_state(user_id, id) == user_id

authoritative_id(user_id, id) ==
    IF IntToStr(user_id) # id THEN IntVal(id) ELSE user_id

\* what the guild may be like when verify_user_in_guild looks at it: the
\* guild is unknown to the bot, the user is no member of it, it has no
\* verified role, or all three are there
Env(g, m, r) == [guild |-> g, member |-> m, role |-> r]
GuildEnvs ==
    {Env(FALSE, FALSE, FALSE), Env(TRUE, FALSE, TRUE), Env(TRUE, TRUE, FALSE),
     Env(TRUE, TRUE, TRUE)}

\* verify_user_in_guild up to its first await, lines 225-240: False, an
\* exception out of bot.get_guild (a list is no dict key), or on to the role
\* changes
verify_user_in_guild_lenient(gv, env) ==
    IF gv.kind = "list" THEN "raise"
    ELSE IF gv.kind # "int" \/ ~env.guild THEN "false"
    ELSE IF ~env.member THEN "false"
    ELSE "await"

verify_user_in_guild(gv, env) ==
    IF gv.kind = "list" THEN "raise"
    ELSE IF gv.kind # "int" \/ ~env.guild THEN "false"
    ELSE IF ~env.member THEN "false"
    ELSE IF ~env.role THEN "false"
    ELSE "await"

\* the role transition as the guild sees it
GuildKind(gv, env) ==
    IF gv.kind # "int" THEN "no_such_guild"
    ELSE IF ~env.guild THEN "no_guild"
    ELSE IF ~env.member THEN "no_member"
    ELSE IF ~env.role THEN "no_role" ELSE "ok"

\* user_access_tokens[user_id_str] = access_token
StoreTokenAfterAnAwait(h, k, t) == h

StoreToken(h, k, t) == SetItem(h, "tokens", k, TokV(t))

\* del pending_verifications[user_id_str]
RemovePendingIfUntouched(h, k) ==
    IF \E c \in CbIds : /\ cb[c].pc = "verify"
                        /\ Key(cb[c].uid) = k
                        /\ cb[c].gv = Get(h[ref["pending"]], k)
    THEN DelItem(h, "pending", k)
    ELSE h

RemovePending(h, k) == DelItem(h, "pending", k)

\* verify_user_in_guild(user_id, guild_id), line 364: the guild whose roles
\* are changed is the value read from pending_verifications at line 361
TransitionGuildFromState(rec) ==
    IF rec.sgid # PyNone THEN GidV(rec.sgid) ELSE rec.gv

TransitionGuild(rec) == rec.gv

\* lines 380-387: no pending verification, the token is stored anyway
StoreAnyway(c, uid, bad, r) ==
    \E o \in SaveOutcomes :
        /\ Failures(o) <= wbudget
        /\ heap' = StoreToken(heap, Key(uid), cb[c].tok)
        /\ disk' = save_json_file(Touch(disk, heap, heap'), "tokens", o)
        /\ wbudget' = wbudget - Failures(o)
        /\ SetCb(c, IdleCb)
        /\ last' = Shows(Page(Ev("token_stored_anyway", c, uid, r), "false"),
                         TokV(cb[c].tok), {20})
        /\ UNCHANGED <<ref, rd, bt>>

\* complete_verification's identity lookup answered: lines 341-364 and
\* 378-387, up to the await of the role changes
CallbackIdentity(c) ==
    /\ cb[c].pc = "identity"
    /\ \E resp \in IdentityResponses(cb[c].tok) :
         LET ui == get_user_info(resp)
             bad == IF cb[c].bad = "" /\ IdentityFails(resp)
                    THEN "identity" ELSE cb[c].bad
             r == IdentityKind(resp)
         IN  IF Falsy(ui)
             THEN Finish(c, Page(Ev("user_info_failed", c, cb[c].uid, r),
                                 "false"))
             ELSE IF ui.body = "noid"
             THEN \* str(user_id) != 'None', then int(None)
                  Finish(c, Crash(Ev("TypeError", c, cb[c].uid, r)))
             ELSE
               LET uid == authoritative_id(cb[c].uid, ui.id)
                   key == Key(uid)
                   gv == Get(pending_verifications, key)
                   tg == TransitionGuild([cb[c] EXCEPT !.gv = gv])
               IN  IF Has(pending_verifications, key)
                   THEN \E env \in GuildEnvs :
                          LET v == verify_user_in_guild(tg, env)
                              gk == GuildKind(tg, env)
                              bad2 == IF bad = "" /\ gk # "ok"
                                      THEN "role" ELSE bad
                          IN  CASE v = "raise" ->
                                     Finish(c, Crash(Ev("TypeError", c, uid,
                                                        gk)))
                                [] v = "false" ->
                                     Finish(c, [Page(Ev("failed_to_verify", c,
                                                        uid, gk), "false")
                                                EXCEPT !.g = tg.gid])
                                [] OTHER ->
                                     Suspend(c, [cb[c] EXCEPT !.pc = "verify",
                                                   !.uid = uid, !.gv = gv,
                                                   !.bad = bad2],
                                             [Ev("has_pending", c, 0, "")
                                              EXCEPT !.g = tg.gid])
                   ELSE StoreAnyway(c, uid, bad, r)

\* verify_user_in_guild, lines 242-253: the role changes went through, or
\* one raised
role_changes(raised) == IF raised THEN "false" ELSE "true"

\* the role changes ended: lines 364-379
CallbackVerified(c) ==
    /\ cb[c].pc = "verify"
    /\ \E raised \in BOOLEAN :
         LET uid == cb[c].uid
             key == Key(uid)
             r == IF raised THEN "raised" ELSE "ok"
         IN  IF role_changes(raised) = "false"
             THEN Finish(c, [Page(Ev("failed_to_verify", c, uid, r), "false")
                             EXCEPT !.g = TransitionGuild(cb[c]).gid])
             ELSE IF ~Has(pending_verifications, key)
             THEN \* del of a key that is gone
                  Finish(c, Crash(Ev("KeyError", c, uid, r)))
             ELSE \E o1, o2 \in SaveOutcomes :
                    LET h1 == RemovePending(heap, key)
                        d1 == save_json_file(Touch(disk, heap, h1),
                                             "pending", o1)
                        h2 == StoreToken(h1, key, cb[c].tok)
                        d2 == save_json_file(Touch(d1, h1, h2), "tokens", o2)
                    IN  /\ Failures(o1) + Failures(o2) <= wbudget
                        /\ heap' = h2
                        /\ disk' = d2
                        /\ wbudget' = wbudget - Failures(o1) - Failures(o2)
                        /\ SetCb(c, IdleCb)
                        /\ last' =
                             Shows([Page(Ev("verification_completed", c,
                                            uid, r), "true")
                                    EXCEPT !.g = TransitionGuild(cb[c]).gid,
                                           !.gone =
                                              IF Has(h1[ref["pending"]], key)
                                              THEN 0
                                              ELSE pending_verifications[key]
                                                     .gid],
                                   TokV(cb[c].tok), {20})
                        /\ UNCHANGED <<ref, rd, bt>>

Callback(c, states, toks) ==
    \/ CallbackNoCode(c)
    \/ CallbackReceived(c, states)
    \/ CallbackExchanged(c, toks)
    \/ CallbackFallback(c)
    \/ CallbackIdentity(c)
    \/ CallbackVerified(c)

(***************************************************************************)
(* Redirection: add_user_command and add_user_to_guild_via_oauth2.         *)
(***************************************************************************)
\* an entry of the redirection list (its timestamp, a wall-clock reading,
\* is left out)
Entry(g, m) == [guild_id |-> g, method |-> m]

\* what the members endpoint may answer: a transport exception or a status
PutResponses == {"exception", "200", "201", "204", "403", "500"}

\* lines 178-215: the method tag logged for a status, "" for none
MethodTagForbiddenToo(status) ==
    IF status \in {"200", "201"} THEN "oauth2_guilds_join"
    ELSE IF status \in {"204", "403"} THEN "already_member" ELSE ""

MethodTag(status) ==
    IF status \in {"200", "201"} THEN "oauth2_guilds_join"
    ELSE IF status = "204" THEN "already_member" ELSE ""

\* lines 182-188 and 197-203: the list is created when the key is new, then
\* appended to; a value that is no list has no append (AttributeError)
LogAppend(h, k, e) ==
    LET h1 == IF Has(h[ref["log"]], k) THEN h
              ELSE SetItem(h, "log", k, ListV(<<>>))
        v == h1[ref["log"]][k]
    IN  IF v.kind = "list"
        THEN [ok |-> TRUE,
              heap |-> SetItem(h1, "log", k, ListV(Append(v.list, e)))]
        ELSE [ok |-> FALSE, heap |-> h1]

RdStep(rec, e) ==
    /\ rd' = rec
    /\ last' = e
    /\ cb' = Interleave(cb, "")
    /\ UNCHANGED <<ref, heap, disk, wbudget, bt>>

\* add_user_command up to its first await, lines 439-458: refused for a
\* member without the verified role or without a token; an int where the
\* token should be has no [:30]
MarkerKind(verified) == IF verified THEN "verified" ELSE "not_verified"

\* lines 444-452: the command goes on for a member who has the verified role
\* and an entry in user_access_tokens
MayRedirectAnyMember(verified, has_token) == has_token

MayRedirect(verified, has_token) == verified /\ has_token

AddCommand(u) ==
    /\ rd.pc = "idle"
    /\ \E verified \in BOOLEAN :
         LET key == Key(u)
             tokv == Get(user_access_tokens, key)
             may == MayRedirect(verified, Has(user_access_tokens, key))
         IN  \/ /\ ~may
                /\ RdStep(IdleRd,
                          Ev("add_refused", "", u,
                             IF verified THEN "no_token" ELSE "not_verified"))
             \/ /\ may
                /\ tokv.kind = "int"
                /\ RdStep(IdleRd, Ev("command_error", "", u, "TypeError"))
             \/ /\ may
                /\ tokv.kind # "int"
                /\ Len(Get(oauth2_adds_log, key).list) < MaxLog
                /\ RdStep([pc |-> "put", u |-> u, tokv |-> tokv],
                          Shows(Ev("oauth2_adding", "", u,
                                   MarkerKind(verified)), tokv, {30}))

\* add_user_to_guild_via_oauth2 from the answer of the PUT on: lines 173-221
AddResponse ==
    /\ rd.pc = "put"
    /\ \E status \in PutResponses, o \in SaveOutcomes :
         LET key == Key(rd.u)
             m == MethodTag(status)
             res == LogAppend(heap, key, Entry(TARGET_SERVER_ID, m))
             e == [Ev("add", "", rd.u, status)
                   EXCEPT !.g = TARGET_SERVER_ID]
         IN  /\ IF m # "" /\ res.ok
                THEN /\ Failures(o) <= wbudget
                     /\ heap' = res.heap
                     /\ disk' = save_json_file(Touch(disk, heap, heap'),
                                               "log", o)
                     /\ wbudget' = wbudget - Failures(o)
                     /\ last' = [e EXCEPT !.op = "add_success",
                                          !.ret = "true"]
                ELSE /\ o = "ok"
                     /\ heap' = IF m # "" THEN res.heap ELSE heap
                     /\ last' = [e EXCEPT !.op = "add_failed",
                                          !.ret = "false"]
                     /\ UNCHANGED <<disk, wbudget>>
             /\ rd' = IdleRd
             /\ cb' = Interleave(cb, "")
             /\ UNCHANGED <<ref, bt>>

(***************************************************************************)
(* Batch redirection: add_all_command.                                     *)
(***************************************************************************)
\* the members the verified role may list, in every order
BatchUsers == {1, 2, 3}

Perms(S) ==
    {f \in [1..Cardinality(S) -> S] :
        \A i, j \in 1..Cardinality(S) : f[i] = f[j] => i = j}

BatchOrders == UNION {Perms(S) : S \in SUBSET BatchUsers}

\* what user_tokens.json may hold at load for the batch: per user no entry, a
\* token, or an empty string
StoredTokenFiles ==
    UNION {{[k \in {Key(u) : u \in S} |->
                f[CHOOSE u \in S : Key(u) = k]] :
               f \in [S -> {TokV("tb"), TokV("")}]} :
           S \in SUBSET BatchUsers}

Min(a, b) == IF a < b THEN a ELSE b

\* a token the provider can be asked with: there is one and it is not empty
Usable(v) == v.kind # "none" /\ v # TokV("") /\ v # GidV(0) /\ v # ListV(<<>>)

\* not access_token, line 511: None, "", 0 or []
NoTokenOnlyNone(v) == v.kind = "none"

NoToken(v) ==
    \/ v.kind = "none"
    \/ v.kind = "str" /\ v.tok = ""
    \/ v.kind = "int" /\ v.gid = 0
    \/ v.kind = "list" /\ v.list = <<>>

\* lines 507-513: how many entries after the i-th are passed over by
\* 'continue' before the loop awaits again
RECURSIVE Skips(_, _, _)
Skips(ms, i, toks) ==
    IF i < Len(ms) /\ NoToken(Get(toks, Key(ms[i + 1])))
    THEN 1 + Skips(ms, i + 1, toks)
    ELSE 0

BtStep(rec, e) ==
    /\ bt' = rec
    /\ last' = e
    /\ cb' = Interleave(cb, "")
    /\ UNCHANGED <<ref, heap, disk, wbudget, rd>>

\* add_all_command up to its first await, lines 492-501
AddAllStart(orders) ==
    /\ bt.pc \in {"idle", "done"}
    /\ \/ BtStep(IdleBt, Ev("addall_refused", "", 0, "no_role"))
       \/ \E ms \in orders :
            LET vm == SelectSeq(ms, LAMBDA m : Has(user_access_tokens, Key(m)))
            IN  IF vm = <<>>
                THEN BtStep(IdleBt, Ev("addall_refused", "", 0, "no_users"))
                ELSE /\ \A i \in 1..Len(vm) :
                          Len(Get(oauth2_adds_log, Key(vm[i])).list)
                              < MaxBatchLog
                     /\ BtStep([IdleBt EXCEPT !.pc = "loop", !.members = vm],
                               Ev("addall_started", "", 0,
                                  IF vm = ms THEN "all" ELSE "filtered"))

\* the loop from one await to the next, lines 507-519 and 536-544: the
\* entries without a token are counted and passed over, then either the next
\* entry's token is read and the PUT awaited, or the report is sent
AddAllLoop ==
    /\ bt.pc = "loop"
    /\ LET ms == bt.members
           k == Skips(ms, bt.i, user_access_tokens)
           j == bt.i + k
           seen == {x \in (bt.i + 1)..Min(j + 1, Len(ms)) :
                       ~Usable(Get(user_access_tokens, Key(ms[x])))}
           b1 == [bt EXCEPT !.i = j, !.no_token_count = @ + k,
                            !.unusable = @ + Cardinality(seen)]
       IN  IF j = Len(ms)
           THEN BtStep([b1 EXCEPT !.pc = "done", !.members = <<>>, !.i = 0],
                       Ev("batch_report", "", 0, ""))
           ELSE BtStep([b1 EXCEPT !.pc = "put",
                                  !.tokv = Get(user_access_tokens,
                                               Key(ms[j + 1]))],
                       Shows(Ev("batch_adding", "", ms[j + 1], ""),
                             Get(user_access_tokens, Key(ms[j + 1])), {30}))

\* lines 521-534: the counters after a call returned, and on to the next
\* entry after the pacing sleep
after_call_stop_on_failure(b, success) ==
    [b EXCEPT !.pc = "loop", !.tokv = NoVal,
              !.i = IF success THEN @ + 1 ELSE Len(b.members),
              !.success_count = IF success THEN @ + 1 ELSE @,
              !.fail_count = IF success THEN @ ELSE @ + 1,
              !.hurt = @ \/ ~success,
              !.slept = @ + 1]

after_call_counts_every_call_added(b, success) ==
    [b EXCEPT !.pc = "loop", !.tokv = NoVal, !.i = @ + 1,
              !.success_count = @ + 1,
              !.hurt = @ \/ ~success,
              !.slept = @ + 1]

after_call_sleep_after_success_only(b, success) ==
    [b EXCEPT !.pc = "loop", !.tokv = NoVal, !.i = @ + 1,
              !.success_count = IF success THEN @ + 1 ELSE @,
              !.fail_count = IF success THEN @ ELSE @ + 1,
              !.hurt = @ \/ ~success,
              !.slept = IF success THEN @ + 1 ELSE @]

after_call(b, success) ==
    [b EXCEPT !.pc = "loop", !.tokv = NoVal, !.i = @ + 1,
              !.success_count = IF success THEN @ + 1 ELSE @,
              !.fail_count = IF success THEN @ ELSE @ + 1,
              !.hurt = @ \/ ~success,
              !.slept = @ + 1]

\* lines 519-534: add_user_to_guild_via_oauth2 returned for the entry at
\* hand (an int where the token should be has no [:30], line 164: the
\* TypeError is caught and the call returns False with no request made)
AddAllResponse ==
    /\ bt.pc = "put"
    /\ \E status \in PutResponses, o \in SaveOutcomes :
         LET u == bt.members[bt.i + 1]
             key == Key(u)
             raises == bt.tokv.kind = "int"
             m == IF raises THEN "" ELSE MethodTag(status)
             res == LogAppend(heap, key, Entry(TARGET_SERVER_ID, m))
             success == m # "" /\ res.ok
             e == [Ev("batch_add", "", u, "")
                   EXCEPT !.g = TARGET_SERVER_ID,
                          !.ret = IF success THEN "true" ELSE "false"]
             after == IF m # "" THEN res.heap ELSE heap
             grew == Len(Get(after[ref["log"]], key).list)
                       - Len(Get(oauth2_adds_log, key).list)
         IN  /\ raises => status = "exception"
             /\ IF success
                THEN /\ Failures(o) <= wbudget
                     /\ heap' = res.heap
                     /\ disk' = save_json_file(Touch(disk, heap, heap'),
                                               "log", o)
                     /\ wbudget' = wbudget - Failures(o)
                ELSE /\ o = "ok"
                     /\ heap' = IF m # "" THEN res.heap ELSE heap
                     /\ UNCHANGED <<disk, wbudget>>
             /\ bt' = [after_call(bt, success)
                       EXCEPT !.appended = @ + grew,
                              !.barren = IF grew = 0 THEN @ + 1 ELSE @]
             /\ last' = e
             /\ cb' = Interleave(cb, "")
             /\ UNCHANGED <<ref, rd>>

(***************************************************************************)
(* The commands that only read the tables or touch roles: !ping,           *)
(* !force_verify, !check_pending, !checkauth, !tokenstatus, !debug_token,  *)
(* !check_perms and !commands.                                             *)
(***************************************************************************)
ReadOnlyCommands ==
    {"ping", "force_verify", "check_pending", "checkauth", "tokenstatus",
     "debug_token", "check_perms", "commands"}

\* !debug_token sends token[:30] of the member named, lines 670-673
AdminCommand ==
    /\ \/ \E name \in ReadOnlyCommands \ {"debug_token"} :
            last' = Ev("command", "", 0, name)
       \/ \E u \in Users :
            last' = Shows(Ev("command", "", u, "debug_token"),
                          Get(user_access_tokens, Key(u)), {30})
    /\ cb' = Interleave(cb, "")
    /\ UNCHANGED <<ref, heap, disk, wbudget, rd, bt>>

(***************************************************************************)
(* The verification side of the system: initiations and one /callback      *)
(* handler, interleaved at the handler's awaits.                           *)
(***************************************************************************)
Next ==
    \/ start_verify(Initiations)
    \/ verify_command(Initiations)
    \/ Callback("c1", StateInputs, {"ta", "tc"})

Spec == Init /\ [][Next]_vars

(***************************************************************************)
(* The redirection side: !add for either user, with an initiation and a    *)
(* callback of user 1 to fill the tables it reads.                         *)
(***************************************************************************)
NextRedirect ==
    \/ verify_command({<<1, 7>>})
    \/ Callback("c1", {<<>>}, {"ta"})
    \/ \E u \in Users : AddCommand(u)
    \/ AddResponse

SpecRedirect == Init /\ [][NextRedirect]_vars

(***************************************************************************)
(* The batch: !addall over every order of the verified members, started    *)
(* with a token file that may hold empty tokens, while initiations of user *)
(* 1 run between its awaits.                                               *)
(***************************************************************************)
InitBatch ==
    /\ disk \in [Tables -> FileStates]
    /\ ref = [t \in Tables |-> load_json_file(disk[t], t)]
    /\ \E toks \in StoredTokenFiles :
         heap = [o \in Objects |->
                    IF o = "tokens" /\ disk["tokens"] = "current"
                    THEN toks ELSE EmptyDict]
    /\ wbudget = 0
    /\ cb = [c \in CbIds |-> IdleCb]
    /\ rd = IdleRd
    /\ bt = IdleBt
    /\ last = Ev("start", "", 0, "")

NextBatch ==
    \/ AddAllStart(BatchOrders)
    \/ AddAllLoop
    \/ AddAllResponse
    \/ verify_command({<<1, 7>>})

SpecBatch == InitBatch /\ [][NextBatch]_vars

\* The batch alone, under the scheduling of the event loop: a coroutine
\* whose await has ended is resumed (the PUT ends with an answer or an
\* exception, the pacing sleep ends).
BatchStep == AddAllLoop \/ AddAllResponse

NextFairBatch ==
    \/ AddAllStart(BatchOrders)
    \/ AddAllLoop
    \/ AddAllResponse

FairBatch == InitBatch /\ [][NextFairBatch]_vars /\ WF_vars(BatchStep)

(***************************************************************************)
(* Two /callback handlers in flight for user 1, each with its own code and *)
(* token, interleaved at their awaits with each other and with             *)
(* initiations.                                                            *)
(***************************************************************************)
RaceStates == {<<>>, <<"1", ":", "7">>}

NextRace ==
    \/ verify_command({<<1, 7>>})
    \/ Callback("c1", RaceStates, {"ta"})
    \/ Callback("c2", RaceStates, {"tb"})

SpecRace == Init /\ [][NextRace]_vars

(***************************************************************************)
(* The same operations on a file system that may fail a bounded number of  *)
(* writes (a full disk, a read-only directory).                            *)
(***************************************************************************)
InitFaulty ==
    /\ disk \in [Tables -> FileStates]
    /\ ref = [t \in Tables |-> load_json_file(disk[t], t)]
    /\ heap = [o \in Objects |-> EmptyDict]
    /\ wbudget = MaxWriteFail
    /\ cb = [c \in CbIds |-> IdleCb]
    /\ rd = IdleRd
    /\ bt = IdleBt
    /\ last = Ev("start", "", 0, "")

NextFaulty ==
    \/ verify_command({<<1, 7>>})
    \/ Callback("c1", RaceStates, {"ta"})
    \/ \E u \in Users : AddCommand(u)
    \/ AddResponse

SpecFaulty == InitFaulty /\ [][NextFaulty]_vars

(***************************************************************************)
(* Every operation together, for user 1: initiation by button and by       *)
(* command, a /callback, !add, !addall and the read-only commands.         *)
(***************************************************************************)
NextAll ==
    \/ start_verify({<<1, 7>>})
    \/ verify_command({<<1, 7>>})
    \/ Callback("c1", {<<>>}, {"ta"})
    \/ AddCommand(1)
    \/ AddResponse
    \/ AddAllStart({<<1>>, <<2, 1>>})
    \/ AddAllLoop
    \/ AddAllResponse
    \/ AdminCommand

SpecAll == Init /\ [][NextAll]_vars

(***************************************************************************)
(* The two redirection commands together, !add for either user and !addall *)
(* over user 1 and a verified user 2 who never authorized, with an         *)
(* initiation and a callback of user 1 to fill the tables they read.       *)
(***************************************************************************)
NextCommands ==
    \/ verify_command({<<1, 7>>})
    \/ Callback("c1", {<<>>}, {"ta"})
    \/ \E u \in Users : AddCommand(u)
    \/ AddResponse
    \/ AddAllStart({<<1>>, <<2, 1>>})
    \/ AddAllLoop
    \/ AddAllResponse

SpecCommands == Init /\ [][NextCommands]_vars

(***************************************************************************)
(* Initiations for ids of one, two and three digits, and a /callback that   *)
(* carries the state of any URL an initiation can have handed out, or      *)
(* none.                                                                   *)
(***************************************************************************)
UrlInits == {<<1, 7>>, <<10, 80>>, <<120, 900>>}

UrlStates == {StateParam(oauth_url(i[1], i[2])) : i \in UrlInits}

NextUrl ==
    \/ start_verify(UrlInits)
    \/ verify_command(UrlInits)
    \/ Callback("c1", UrlStates \cup {<<>>}, {"ta"})

SpecUrl == Init /\ [][NextUrl]_vars

(***************************************************************************)
(* Properties.  A step is told by what it leaves in 'last' and by the      *)
(* position the handler had before it.                                     *)
(***************************************************************************)
StoredPendingOps == {"button_stored_pending", "command_stored_pending"}

\* the step is callback c's
StepOf(c) == last'.c = c /\ cb[c].pc # "idle"

\* C1: a callback handled with no other handler interleaved, whose pending
\* record exists, whose exchange and identity lookup succeed and whose role
\* transition succeeds, ends with no PendingVerification entry for the user
\* and with StoredToken[U] the exchanged access token.
C1_ReconciledClearsPending ==
    [][\A c \in CbIds :
         (StepOf(c) /\ cb[c].pc = "verify" /\ cb[c].solo /\ cb[c].bad = ""
          /\ last'.r = "ok")
         => /\ ~Has(pending_verifications', Key(cb[c].uid))
            /\ Get(user_access_tokens', Key(cb[c].uid)) = TokV(cb[c].tok)]_vars

\* C2: the three tables are independent whatever the files were at load: an
\* initiation changes only the pending table, a token store only the token
\* table, a redirection log append only the log table.
C2_TablesIndependent ==
    [][/\ last'.op \in StoredPendingOps
          => UNCHANGED <<user_access_tokens, oauth2_adds_log>>
       /\ last'.op = "token_stored_anyway"
          => UNCHANGED <<pending_verifications, oauth2_adds_log>>
       /\ last'.op = "verification_completed" => UNCHANGED oauth2_adds_log
       /\ last'.op = "add_success"
          => UNCHANGED <<pending_verifications, user_access_tokens>>]_vars

\* C3: a callback whose token exchange fails (an exception, a status other
\* than 200, or a 200 without access_token) changes neither
\* PendingVerification nor StoredToken, in the step that sees the failure or
\* in any later one.
ExchangeFailed(c) ==
    \/ cb[c].bad = "exchange"
    \/ cb[c].pc = "exchange" /\ last'.r \in {"exception", "status", "no_token"}

C3_ExchangeFailureChangesNothing ==
    [][\A c \in CbIds :
         (StepOf(c) /\ ExchangeFailed(c))
         => UNCHANGED <<pending_verifications, user_access_tokens>>]_vars

C3_Witness ==
    /\ last.op = "token_exchange_failed"
    /\ last.r = "no_token"
    /\ Has(pending_verifications, Key(1))
    /\ Has(user_access_tokens, Key(2))

\* C4: a callback whose identity lookup fails (the handler's fallback lookup
\* or complete_verification's own) changes neither PendingVerification nor
\* StoredToken, although its exchange succeeded.
IdentityFailed(c) ==
    \/ cb[c].bad = "identity"
    \/ /\ cb[c].pc \in {"fallback", "identity"}
       /\ last'.r \in {"exception", "status", "empty"}

C4_IdentityFailureChangesNothing ==
    [][\A c \in CbIds :
         (StepOf(c) /\ IdentityFailed(c))
         => UNCHANGED <<pending_verifications, user_access_tokens>>]_vars

C4_Witness ==
    /\ last.op = "user_info_failed"
    /\ last.r = "status"
    /\ last.u \in Users
    /\ Has(pending_verifications, Key(last.u))

\* C5: with a pending record for the authoritative user U and a role
\* transition that fails (guild or member not found, verified role missing,
\* or a role change raising), the callback leaves PendingVerification[U] in
\* place and does not write StoredToken[U].
RoleFailedFor(c, u) ==
    \/ /\ cb[c].pc = "identity"
       /\ last'.u = u
       /\ last'.r \in {"no_such_guild", "no_guild", "no_member", "no_role"}
    \/ /\ cb[c].pc = "verify"
       /\ cb[c].uid = u
       /\ (cb[c].bad = "role" \/ last'.r = "raised")

C5_RoleFailureKeepsPending ==
    [][\A c \in CbIds, u \in Users :
         (StepOf(c) /\ RoleFailedFor(c, u)
          /\ Has(pending_verifications, Key(u)))
         => /\ Has(pending_verifications', Key(u))
            /\ pending_verifications'[Key(u)] = pending_verifications[Key(u)]
            /\ Get(user_access_tokens', Key(u))
                 = Get(user_access_tokens, Key(u))]_vars

C5_Witness ==
    /\ last.op = "failed_to_verify"
    /\ last.r = "no_role"
    /\ last.u \in Users
    /\ Has(pending_verifications, Key(last.u))
    /\ ~Has(user_access_tokens, Key(last.u))

\* C6: with the exchange and the identity lookup succeeding and no pending
\* record for the authoritative user U, the callback sets StoredToken[U] to
\* the exchanged token and leaves PendingVerification unchanged.
C6_NoPendingStoresTokenOnly ==
    [][\A c \in CbIds, u \in Users :
         (StepOf(c) /\ cb[c].pc = "identity" /\ cb[c].bad = ""
          /\ last'.r = "ok" /\ last'.u = u /\ Owner(cb[c].tok) = u
          /\ ~Has(pending_verifications, Key(u)))
         => /\ Get(user_access_tokens', Key(u)) = TokV(cb[c].tok)
            /\ UNCHANGED pending_verifications]_vars

\* C7: when the state names U1 and the identity lookup returns U2 # U1, the
\* pending lookup is by U2, a token is written under U2 only, and the
\* entries of U1, in either table, neither decide anything nor change.
Resolved(c) ==
    /\ cb[c].pc = "identity"
    /\ \/ cb'[c].pc = "verify"
       \/ last'.op \in {"failed_to_verify", "token_stored_anyway"}
       \/ last'.op = "TypeError" /\ last'.r = "no_such_guild"

C7_IdentityWins ==
    [][\A c \in CbIds :
         LET U1 == cb[c].suid
             U2 == Owner(cb[c].tok)
         IN  (StepOf(c) /\ cb[c].pc \in {"identity", "verify"}
              /\ cb[c].bad = "" /\ U1 \in Users /\ U1 # U2)
             => /\ Get(pending_verifications', Key(U1))
                     = Get(pending_verifications, Key(U1))
                /\ Get(user_access_tokens', Key(U1))
                     = Get(user_access_tokens, Key(U1))
                /\ Resolved(c)
                   => /\ last'.op = "token_stored_anyway"
                          <=> ~Has(pending_verifications, Key(U2))
                      /\ last'.op = "token_stored_anyway"
                          => Get(user_access_tokens', Key(U2))
                               = TokV(cb[c].tok)
                      /\ cb'[c].pc = "verify"
                          => /\ cb'[c].uid = U2
                             /\ cb'[c].gv = pending_verifications[Key(U2)]
                /\ (cb[c].pc = "verify" /\ last'.op = "verification_completed")
                   => /\ cb[c].uid = U2
                      /\ Get(user_access_tokens', Key(U2)) = TokV(cb[c].tok)]_vars

C7_Witness ==
    /\ cb["c1"].pc = "verify"
    /\ cb["c1"].suid = 2
    /\ cb["c1"].uid = 1
    /\ Has(pending_verifications, Key(2))

\* C8: after an initiation (button or !verify) has written the pending
\* record of user U in guild G, PendingVerification[U] = G; a second
\* initiation replaces the value, and the table gains no other entry.
C8_InitiationOverwrites ==
    [][last'.op \in StoredPendingOps
       => LET k == Key(last'.u) IN
          /\ Get(pending_verifications', k) = GidV(last'.g)
          /\ DOMAIN pending_verifications'
               = DOMAIN pending_verifications \cup {k}
          /\ \A x \in DOMAIN pending_verifications \ {k} :
               pending_verifications'[x] = pending_verifications[x]]_vars

C8_Witness ==
    /\ last.op = "command_stored_pending"
    /\ last.r = "replaced"
    /\ last.u = 1
    /\ last.g = 8
    /\ pending_verifications[Key(1)] = GidV(8)

\* C9: on every provider status 200, 201 or 204 redirectOne reports success
\* and appends exactly one entry to the user's list, tagged
\* "oauth2_guilds_join" for 200 and 201 and "already_member" for 204, with
\* the requested guild as its target.
ListOf(d, k) == IF Has(d, k) THEN d[k].list ELSE <<>>

C9_SuccessAppendsOne ==
    [][(rd.pc = "put" /\ rd'.pc = "idle"
        /\ last'.r \in {"200", "201", "204"})
       => LET k == Key(rd.u)
              tag == IF last'.r = "204" THEN "already_member"
                     ELSE "oauth2_guilds_join"
          IN  /\ last'.ret = "true"
              /\ Get(oauth2_adds_log', k)
                   = ListV(Append(ListOf(oauth2_adds_log, k),
                                  Entry(TARGET_SERVER_ID, tag)))]_vars

\* C10: on status 403, on any status other than 200, 201 and 204, and on a
\* transport exception, redirectOne reports failure and leaves the
\* redirection log as it was.
C10_FailureLogsNothing ==
    [][(rd.pc = "put" /\ rd'.pc = "idle"
        /\ last'.r \in {"403", "500", "exception"})
       => /\ last'.ret = "false"
          /\ UNCHANGED oauth2_adds_log]_vars

C10_Witness ==
    /\ last.op = "add_failed"
    /\ last.r = "403"
    /\ last.u \in Users
    /\ Has(oauth2_adds_log, Key(last.u))
    /\ oauth2_adds_log[Key(last.u)].kind = "list"

\* C11: when a batch over N users sends its report, M of them having had no
\* usable token when the loop came to them, success_count + fail_count is
\* N - M and no_token_count is M.
C11_BatchCountsAddUp ==
    [][last'.op = "batch_report"
       => /\ bt'.success_count + bt'.fail_count
               = Len(bt.members) - bt'.unusable
          /\ bt'.no_token_count = bt'.unusable]_vars

C11_Witness ==
    /\ bt.pc = "done"
    /\ bt.unusable = 1
    /\ bt.success_count = 1
    /\ bt.fail_count = 1

\* C12: a started batch hands to add_user_to_guild_via_oauth2, in input
\* order, every entry that has a token when the loop comes to it, goes on to
\* the next entry whatever a call returned, and in the end sends its report.
TokenAt(x) == Get(user_access_tokens, Key(bt.members[x]))

NextUsableIsTried ==
    (bt.pc = "loop" /\ bt'.pc = "put")
    => (/\ bt'.i >= bt.i
        /\ bt'.i < Len(bt.members)
        /\ \A x \in (bt.i + 1)..bt'.i : ~Usable(TokenAt(x))
        /\ Usable(TokenAt(bt'.i + 1))
        /\ bt'.tokv = TokenAt(bt'.i + 1))

ReportOnlyAtTheEnd ==
    (bt.pc = "loop" /\ bt'.pc = "done")
    => (\A x \in (bt.i + 1)..Len(bt.members) : ~Usable(TokenAt(x)))

CallGoesOn ==
    (bt.pc = "put")
    => (bt'.pc = "loop" /\ bt'.i = bt.i + 1 /\ bt'.members = bt.members)

C13_NoCallbackRaises == last.out # "500"

\* C14: when two callbacks of one user are in flight together and each meets
\* a provider and a guild that let it succeed, the one that ends last leaves
\* its own access token in StoredToken[U]: a callback that ends after
\* answers that were all good has its token stored when it ends.
C14_LastWriteWins ==
    [][\A c \in CbIds :
         (StepOf(c) /\ cb[c].pc \in {"identity", "verify"}
          /\ cb'[c].pc = "idle" /\ cb[c].bad = "" /\ last'.r = "ok")
         => Get(user_access_tokens', Key(Owner(cb[c].tok)))
              = TokV(cb[c].tok)]_vars

\* C15: the callback endpoint answers every request with status 200 and an
\* HTML page of content-type text/html.
C15_AlwaysHtml200 == last.out \in {"", "200 text/html"}

\* C16: a callback whose state is absent or does not parse reconciles under
\* the id the identity lookup gives, begins no role transition, leaves
\* PendingVerification unchanged and stores the token under that id.  Stated
\* for a token table and a pending table that are two objects, where the
\* shared default of load_json_file plays no part.
Unparsed(c) == NoUserId(cb[c].suid) /\ cb[c].pc \in {"identity", "verify"}

C16_UnparsedStateSkipsTransition ==
    [][\A c \in CbIds :
         (StepOf(c) /\ Unparsed(c) /\ cb[c].bad = ""
          /\ ref["tokens"] # ref["pending"]
          /\ last'.r \in {"ok", "no_guild", "no_member", "no_role"})
         => /\ cb[c].uid = Owner(cb[c].tok)
            /\ cb'[c].pc # "verify"
            /\ UNCHANGED pending_verifications
            /\ Get(user_access_tokens', Key(cb[c].uid))
                 = TokV(cb[c].tok)]_vars

\* C17: a callback ends in one outcome, and complete_verification reports
\* success (returns True) exactly when it stored the token of the
\* authoritative user: in the branch with a pending record and a role
\* transition that succeeded, and in the branch without a pending record.
C17_ReconciledIffTokenStored ==
    [][\A c \in CbIds :
         (StepOf(c) /\ cb[c].pc \in {"identity", "verify"}
          /\ cb'[c].pc = "idle")
         => /\ last'.out \in {"200 text/html", "500"}
            /\ last'.ret = "true"
                 <=> /\ user_access_tokens' # user_access_tokens
                        \/ last'.op \in {"verification_completed",
                                          "token_stored_anyway"}
                     /\ Get(user_access_tokens', Key(last'.u))
                          = TokV(cb[c].tok)]_vars

\* C18: when an operation that changes a table has returned with success,
\* the table's file holds what the table holds in memory: a write that fails
\* never leaves the operation reporting success over a file that differs.
C18_DiskFollowsMemory ==
    [][/\ last'.op \in StoredPendingOps => disk'["pending"] = "current"
       /\ last'.op = "token_stored_anyway" => disk'["tokens"] = "current"
       /\ last'.op = "verification_completed"
          => (disk'["pending"] = "current" /\ disk'["tokens"] = "current")
       /\ last'.op = "add_success" => disk'["log"] = "current"]_vars

\* C19: the redirection log is append-only: from any state to any later one
\* every user's sequence stays a sequence and keeps what it held as a
\* prefix; step by step, no operation alters, reorders or removes an entry
\* or a user's sequence.
IsPrefix(s, t) == Len(s) <= Len(t) /\ SubSeq(t, 1, Len(s)) = s

C19_LogAppendOnly ==
    [][\A k \in DOMAIN oauth2_adds_log :
         oauth2_adds_log[k].kind = "list"
         => /\ k \in DOMAIN oauth2_adds_log'
            /\ oauth2_adds_log'[k].kind = "list"
            /\ IsPrefix(oauth2_adds_log[k].list,
                        oauth2_adds_log'[k].list)]_vars

\* C20: the token table is changed by reconciliation only, a change sets one
\* entry and none is ever removed: initiation, !add, !addall and the other
\* commands leave it as it was.
C20_OnlyReconciliationWritesTokens ==
    [][/\ DOMAIN user_access_tokens \subseteq DOMAIN user_access_tokens'
       /\ user_access_tokens' # user_access_tokens
          => /\ last'.op \in {"verification_completed",
                               "token_stored_anyway"}
             /\ \A k \in DOMAIN user_access_tokens' \ {Key(last'.u)} :
                  Get(user_access_tokens', k) = Get(user_access_tokens, k)]_vars
\* C21: a callback whose request carries no authorization code, the
\* parameter being absent or empty, ends at once: it awaits neither the token
\* exchange nor an identity lookup, and no table and no file changes.
C21_NoCodeChangesNothing ==
    [][\A c \in CbIds :
         (cb[c].pc = "idle" /\ last'.c = c
          /\ last'.r \in {"code_absent", "code_empty"})
         => /\ last'.op = "no_code"
            /\ cb'[c].pc = "idle"
            /\ UNCHANGED <<ref, heap, disk>>]_vars

C21_Witness ==
    /\ last.op = "no_code"
    /\ last.r = "code_empty"
    /\ pending_verifications = [k \in {Key(1)} |-> GidV(7)]
    /\ ref["pending"] = "pending"

\* C22: the authorization URL is a function of the user id and the guild id
\* (two initiations with the same ids hand out the same URL), and the state
\* parameter of the URL parses, in the callback, to that very user id and
\* guild id.
UrlParsesBack ==
    last'.op \in StoredPendingOps
    => /\ parse_state(StateParam(last'.url))
            = [user_id |-> last'.u, guild_id |-> last'.g]
       /\ (last.op \in StoredPendingOps /\ last.u = last'.u /\ last.g = last'.g)
          => last'.url = last.url

CallbackParsesUrlState ==
    \A c \in CbIds, i \in UrlInits :
        (StepOf(c) /\ cb[c].pc = "exchange" /\ cb'[c].pc # "idle"
         /\ cb[c].state = StateParam(oauth_url(i[1], i[2])))
        => (cb'[c].pc = "identity" /\ cb'[c].suid = i[1] /\ cb'[c].sgid = i[2])

C22_UrlStateRoundTrip == [][UrlParsesBack /\ CallbackParsesUrlState]_vars

C22_Witness ==
    /\ last.op = "completing"
    /\ cb["c1"].suid = 120
    /\ cb["c1"].sgid = 900
    /\ Get(pending_verifications, Key(120)) = GidV(900)

\* C23: in a batch every call of add_user_to_guild_via_oauth2 is followed by
\* the pacing sleep before the loop goes on, so that a sleep lies between any
\* two consecutive calls, and the entries passed over for lack of a token
\* are passed over with no sleep.
SleepAfterEveryCall ==
    (bt.pc = "put" /\ bt'.pc = "loop") => bt'.slept = bt.slept + 1

NoSleepForSkipped ==
    bt.pc = "loop"
    => /\ bt'.slept = bt.slept
       /\ bt'.pc = "put" => bt'.slept = bt'.success_count + bt'.fail_count

C23_PacedCalls == [][SleepAfterEveryCall /\ NoSleepForSkipped]_vars

C23_Witness ==
    /\ bt.pc = "put"
    /\ bt.i = 2
    /\ bt.no_token_count = 1
    /\ bt.slept = 1

\* C24: whatever a step prints or sends to the chat of an access token is a
\* strict prefix of the token, for a token of any length: never the whole
\* token.
C24_OnlyStrictPrefixesShown ==
    \A f \in last.shown :
        /\ IsPrefix(f, TokenText(last.t))
        /\ Len(f) < Len(TokenText(last.t))

\* C25: a callback that read the pending record of U, was suspended in the
\* role changes while U started a new verification (which replaced the
\* record), and resumes with the role changes done, deletes the record the
\* newer initiation wrote; such an interleaving is reachable.
C25_ResumedCallbackDeletesNewerRecord ==
    [][\A c \in CbIds :
         LET key == Key(cb[c].uid) IN
         (StepOf(c) /\ cb[c].pc = "verify"
          /\ last'.op = "verification_completed"
          /\ Get(pending_verifications, key) # cb[c].gv)
         => /\ Get(pending_verifications', key)
                 # Get(pending_verifications, key)
            /\ last'.gone = Get(pending_verifications, key).gid]_vars

C25_Witness ==
    /\ last.op = "verification_completed"
    /\ last.u = 1
    /\ last.g = 7
    /\ last.gone = 8
    /\ ~Has(pending_verifications, Key(1))

\* C26: every entry of the token table has as its value an access token the
\* provider issued and as its key the id of the user the identity lookup
\* names for that token: the key is never an id that only a state carried
\* and the value is never anything but a token.
C26_TokenTableHoldsOwnTokens ==
    \A k \in DOMAIN user_access_tokens :
        /\ user_access_tokens[k].kind = "str"
        /\ user_access_tokens[k].tok \in Tokens
        /\ k = Key(Owner(user_access_tokens[k].tok))

\* C27: the step of a callback that deletes the pending record of U is the
\* step that stores the token under U and ends the handler: the two writes
\* have no await between them, so no handler sees the record gone and the
\* token not yet stored.
C27_DeleteAndStoreInOneStep ==
    [][\A c \in CbIds :
         LET key == Key(cb[c].uid) IN
         (StepOf(c) /\ cb[c].uid # PyNone
          /\ Has(pending_verifications, key)
          /\ ~Has(pending_verifications', key))
         => /\ Get(user_access_tokens', key) = TokV(cb[c].tok)
            /\ cb'[c].pc = "idle"
            /\ last'.ret = "true"]_vars

C27_Witness ==
    /\ last.op = "verification_completed"
    /\ last.gone = 7
    /\ ~Has(pending_verifications, Key(1))
    /\ Get(user_access_tokens, Key(1)) = TokV("ta")

\* C28: the guild whose roles a reconciliation sets out to change is the one
\* the pending record of the user held when complete_verification looked it
\* up; the guild id of the callback's state, whatever it is, selects nothing.
RoleGuildAtLookup(c) ==
    /\ (cb[c].pc = "identity" /\ cb'[c].pc = "verify")
       => /\ cb'[c].gv = Get(pending_verifications, Key(cb'[c].uid))
          /\ last'.g = cb'[c].gv.gid
    /\ (cb[c].pc = "identity" /\ last'.op = "failed_to_verify")
       => last'.g = Get(pending_verifications, Key(last'.u)).gid

RoleGuildAtTheEnd(c) ==
    (cb[c].pc = "verify"
     /\ last'.op \in {"verification_completed", "failed_to_verify"})
    => last'.g = cb[c].gv.gid

C28_RoleGuildFromPendingRecord ==
    [][\A c \in CbIds :
         StepOf(c) => (RoleGuildAtLookup(c) /\ RoleGuildAtTheEnd(c))]_vars

C28_Witness ==
    /\ cb["c1"].pc = "verify"
    /\ cb["c1"].sgid = 8
    /\ cb["c1"].gv = GidV(7)
    /\ last.op = "has_pending"
    /\ last.g = 7

\* C29: !add goes on to its call only for a member who, at the command's
\* check, has the verified role and an entry in the token table, and !addall
\* only over such members; a refused !add makes no call and appends nothing,
\* and a call appends to no list but that of the user it is for.
SingleChecked ==
    /\ (rd.pc = "idle" /\ rd'.pc = "put")
       => /\ last'.r = "verified"
          /\ Has(user_access_tokens, Key(rd'.u))
    /\ last'.op = "add_refused"
       => (rd'.pc = "idle" /\ UNCHANGED oauth2_adds_log)
    /\ (rd.pc = "put" /\ rd'.pc = "idle")
       => \A k \in (DOMAIN oauth2_adds_log \cup DOMAIN oauth2_adds_log') :
            k # Key(rd.u)
            => Get(oauth2_adds_log', k) = Get(oauth2_adds_log, k)

BatchChecked ==
    /\ last'.op = "addall_started"
       => \A i \in 1..Len(bt'.members) :
            Has(user_access_tokens, Key(bt'.members[i]))
    /\ last'.op = "addall_refused"
       => (bt'.pc = "idle" /\ UNCHANGED oauth2_adds_log)
    /\ (bt.pc = "loop" /\ bt'.pc = "put")
       => last'.u = bt.members[bt'.i + 1]
    /\ (bt.pc = "put" /\ bt'.pc = "loop")
       => \A k \in (DOMAIN oauth2_adds_log \cup DOMAIN oauth2_adds_log') :
            k # Key(bt.members[bt.i + 1])
            => Get(oauth2_adds_log', k) = Get(oauth2_adds_log, k)

C29_OnlyCheckedUsersAreRedirected == [][SingleChecked /\ BatchChecked]_vars

C29_Witness ==
    /\ last.op = "addall_started"
    /\ last.r = "filtered"
    /\ bt.members = <<1>>
    /\ rd.pc = "put"
    /\ rd.u = 1

\* C30: in the report of a batch success_count is the number of entries the
\* batch's own calls appended to the redirection log, and fail_count is the
\* number of its calls that appended none.
C30_CountsMatchLogAppends ==
    [][last'.op = "batch_report"
       => /\ bt'.success_count = bt'.appended
          /\ bt'.fail_count = bt'.barren]_vars

C30_Witness ==
    /\ bt.pc = "done"
    /\ bt.success_count = 2
    /\ bt.appended = 2
    /\ bt.fail_count = 1
    /\ bt.barren = 1

====
